---- MODULE Spec2Model ----
(***************************************************************************)
(* docker_dynamic_ipv6.py: one run queries the global IPv6 addresses of an *)
(* interface, selects a network, compares it with the "fixed-cidr-v6" key  *)
(* of the docker daemon configuration and, when they differ, rewrites the  *)
(* configuration and restarts the daemon.  The model runs the script       *)
(* several times in a row against the same host.                           *)
(*                                                                         *)
(* Addresses are AddrBits wide instead of 128; the arithmetic of the       *)
(* ipaddress library (network base, supernet, subnets, strict parsing) is  *)
(* kept bit for bit at that width.                                         *)
(***************************************************************************)
EXTENDS Integers, Sequences, FiniteSets, TLC

VARIABLES
    hostAddrs,      \* the interface's global-scope address entries (host state)
    ipInstalled,    \* whether shutil.which('ip') finds the utility (host state)
    file,           \* the configuration file: [exists, doc]
    pc,             \* position of the running script
    run,            \* number of the current run
    exitCode,       \* exit status of the current run, -1 while it runs
    uncaught,       \* name of the exception that ended the run, or "none"
    log,            \* error-level messages logged by the current run
    ipRc,           \* exit status of 'ip' in the current run, -1 if not run
    ipv6_info,      \* return value of get_global_ipv6: [ok, addr_info]
    validity,       \* the script's variable validity
    selIdx,         \* index in addr_info of the record sys_ipv6_net came from
    sys_ipv6_net,   \* the script's variable sys_ipv6_net, Unbound until assigned
    same,           \* return value of docker_sys_prefix_same
    cfgRead,        \* the current run opened the configuration for reading
    writes,         \* times the current run wrote the configuration
    restarts,       \* times the current run invoked systemctl restart docker
    restartRc,      \* exit status of systemctl in the current run, -1 if not run
    prevWrote       \* the previous run wrote the configuration and restarted

vars == <<hostAddrs, ipInstalled, file, pc, run, exitCode, uncaught, log,
          ipRc, ipv6_info, validity, selIdx, sys_ipv6_net, same, cfgRead, writes,
          restarts, restartRc, prevWrote>>

(***************************************************************************)
(* Bounds                                                                  *)
(***************************************************************************)
AddrBits == 3
MaxLife == 2
MaxRecs == 3
MaxRuns == 2

(***************************************************************************)
(* ipaddress: addresses and networks                                       *)
(***************************************************************************)
RECURSIVE Pow2(_)
Pow2(n) == IF n = 0 THEN 1 ELSE 2 * Pow2(n - 1)

Addrs == 0 .. (Pow2(AddrBits) - 1)
PrefixLens == 0 .. AddrBits

Net(a, l) == [addr |-> a, len |-> l]
Unbound == Net(-1, -1)
ValueError == Net(-2, -2)

HostBits(a, l) == a % Pow2(AddrBits - l)

\* ipaddress.IPv6Network(address/prefixlen, strict)
IPv6Network(a, l, strict) ==
    IF HostBits(a, l) # 0
    THEN IF strict THEN ValueError ELSE Net(a - HostBits(a, l), l)
    ELSE Net(a, l)

\* IPv6Network.supernet(), prefixlen_diff = 1
supernet(n) ==
    IF n.len = 0 THEN n
    ELSE Net(n.addr - HostBits(n.addr, n.len - 1), n.len - 1)

\* IPv6Network.subnets(), prefixlen_diff = 1, as the list the generator yields
subnets(n) ==
    IF n.len = AddrBits THEN <<n>>
    ELSE <<Net(n.addr, n.len + 1),
           Net(n.addr + Pow2(AddrBits - n.len - 1), n.len + 1)>>

\* IPv6Address.is_private: membership in the library's private networks; at
\* this width the one private network is the top quarter (the place of fc00::/7)
PrivateNets == {Net(Pow2(AddrBits) - Pow2(AddrBits - 2), 2)}
is_private(a) == \E p \in PrivateNets : a - HostBits(a, p.len) = p.addr

(***************************************************************************)
(* Text forms: str(IPv6Network) and its parse                              *)
(***************************************************************************)
RECURSIVE Bits(_, _)
Bits(a, w) == IF w = 0 THEN <<>>
              ELSE Append(Bits(a \div 2, w - 1), IF a % 2 = 1 THEN "1" ELSE "0")

RECURSIVE FromBits(_)
FromBits(s) == IF s = <<>> THEN 0
               ELSE 2 * FromBits(SubSeq(s, 1, Len(s) - 1))
                    + (IF s[Len(s)] = "1" THEN 1 ELSE 0)

\* str(network): the address digits, a slash, the prefix length
Str(n) == Bits(n.addr, AddrBits) \o <<"/", ToString(n.len)>>

\* ipaddress.IPv6Network(text), strict
ParseNetwork(t) ==
    LET a == FromBits(SubSeq(t, 1, Len(t) - 2))
        l == CHOOSE x \in PrefixLens : ToString(x) = t[Len(t)]
    IN IPv6Network(a, l, TRUE)

(***************************************************************************)
(* json: the file's text is a list of <<key, value>> pairs in document     *)
(* order; json.load turns it into a dict, json.dump(sort_keys=True) writes *)
(* the dict back in key order.                                             *)
(***************************************************************************)
CidrKey == "fixed-cidr-v6"
SortedKeys == <<"bip", "fixed-cidr-v6", "log-driver">>
KeyRank(k) == CHOOSE i \in 1 .. Len(SortedKeys) : SortedKeys[i] = k

DocKeys(doc) == {doc[i][1] : i \in 1 .. Len(doc)}

\* json.load: a later pair of the same key overrides an earlier one
json_load(doc) ==
    [k \in DocKeys(doc) |->
        LET last == CHOOSE i \in 1 .. Len(doc) :
                        /\ doc[i][1] = k
                        /\ \A j \in (i + 1) .. Len(doc) : doc[j][1] # k
        IN doc[last][2]]

RECURSIVE DumpSorted(_, _)
DumpSorted(d, keys) ==
    IF keys = {} THEN <<>>
    ELSE LET k == CHOOSE x \in keys : \A y \in keys : KeyRank(x) <= KeyRank(y)
         IN <<(<<k, d[k]>>)>> \o DumpSorted(d, keys \ {k})

\* json.dump(docker_config, f, indent=4, sort_keys=True)
json_dump(d) == DumpSorted(d, DOMAIN d)

NoFile == [exists |-> FALSE, doc |-> <<>>]
FileOf(doc) == [exists |-> TRUE, doc |-> doc]

(***************************************************************************)
(* The host: address entries and the 'ip' utility                          *)
(***************************************************************************)
\* an empty object {} in addr_info
EmptyRec == [local |-> -1, prefixlen |-> -1, valid_life_time |-> -1,
             tentative |-> FALSE]
Rec(a, l, t, tent) == [local |-> a, prefixlen |-> l, valid_life_time |-> t,
                       tentative |-> tent]

\* the arguments get_global_ipv6 passes to 'ip'
IpArgs == {"-6", "-json", "address", "show", "dev", "scope", "global",
           "-tentative"}

\* ip -6 -json address show dev IF scope global [-tentative]: addr_info of the
\* interface, without the tentative entries when -tentative is given
IpAddressShow(addrs, args) ==
    SelectSeq(addrs, LAMBDA r : ~("-tentative" \in args /\ r.tentative))

None == [ok |-> FALSE, addr_info |-> <<>>]

\* get_global_ipv6 without the return None of a nonzero exit status
get_global_ipv6_NoReturnCheck(rc) ==
    [ok |-> TRUE, addr_info |-> IpAddressShow(hostAddrs, IpArgs)]

\* get_global_ipv6's return value for an installed 'ip' that exited with rc
get_global_ipv6(rc) ==
    IF rc # 0 THEN None
    ELSE [ok |-> TRUE, addr_info |-> IpAddressShow(hostAddrs, IpArgs)]

\* check_private that reports every address as not private
check_private_Never(a) == FALSE

\* check_private(ipv6)
check_private(a) == is_private(a)

(***************************************************************************)
(* Selection loop of the main block                                        *)
(***************************************************************************)
RECURSIVE SelectLoop(_, _, _, _)
SelectLoop(recs, i, v, idx) ==
    IF i > Len(recs) THEN [validity |-> v, idx |-> idx]
    ELSE IF recs[i] = EmptyRec \/ check_private(recs[i].local)
         THEN SelectLoop(recs, i + 1, v, idx)
         ELSE IF v < recs[i].valid_life_time
              THEN SelectLoop(recs, i + 1, recs[i].valid_life_time, i)
              ELSE SelectLoop(recs, i + 1, v, idx)

\* the network built from a selected record, strict=False
NetOfRec(r) == IPv6Network(r.local, r.prefixlen, FALSE)

(***************************************************************************)
(* Log messages (error level)                                              *)
(***************************************************************************)
ToolMissing == "Unix tool 'ip' is not installed"
QueryFailed == "Error while running system 'ip' utility"
NoUsableAddress == "System has no usable IPv6 address"
ConfigNotFound == "Docker config file does not exist"
RestartFailed == "Error while restarting docker daemon"

\* an uncaught exception ends the interpreter with status 1
Crash(exc) ==
    /\ uncaught' = exc
    /\ exitCode' = 1
    /\ pc' = "done"

Exit(code) ==
    /\ exitCode' = code
    /\ pc' = "done"
    /\ UNCHANGED uncaught

Goto(l) ==
    /\ pc' = l
    /\ UNCHANGED <<exitCode, uncaught>>

(***************************************************************************)
(* Steps of one run                                                        *)
(***************************************************************************)
\* ipv6_info = get_global_ipv6(args.interface); if None: exit(1)
QueryAddress ==
    /\ pc = "query"
    /\ \/ /\ ~ipInstalled
          /\ log' = Append(log, ToolMissing)
          /\ ipRc' = -1
          /\ ipv6_info' = None
          /\ Exit(1)
       \/ /\ ipInstalled
          /\ \E rc \in {0, 1} :
                /\ ipRc' = rc
                /\ ipv6_info' = get_global_ipv6(rc)
                /\ log' = IF rc # 0 THEN Append(log, QueryFailed) ELSE log
                /\ IF ipv6_info' = None THEN Exit(1) ELSE Goto("select")
    /\ UNCHANGED <<hostAddrs, ipInstalled, file, run, validity, selIdx,
                   sys_ipv6_net, same, cfgRead, writes, restarts, restartRc,
                   prevWrote>>

\* validity = 0; for addr_info in ...; if not sys_ipv6_net: error, exit(1)
\* sys_ipv6_net is first bound inside the loop: with no assignment the test
\* of line 142 raises NameError; a bound IPv6Network is always true
SelectNetwork ==
    /\ pc = "select"
    /\ LET r == SelectLoop(ipv6_info.addr_info, 1, 0, 0)
       IN /\ validity' = r.validity
          /\ selIdx' = r.idx
          /\ IF r.idx = 0
             THEN sys_ipv6_net' = Unbound /\ Crash("NameError")
             ELSE /\ sys_ipv6_net' = NetOfRec(ipv6_info.addr_info[r.idx])
                  /\ Goto("compare")
    /\ UNCHANGED <<hostAddrs, ipInstalled, file, run, log, ipRc, ipv6_info, same,
                   cfgRead, writes, restarts, restartRc, prevWrote>>

\* the comparison without the call of supernet()
PrefixSame_NoSupernet(docker_ipv6_net, sys_net) ==
    IF docker_ipv6_net = sys_net THEN "True" ELSE "False"

\* docker_sys_prefix_same's return value on an existing, well-formed file
PrefixSame(docker_ipv6_net, sys_net) ==
    IF supernet(docker_ipv6_net) = sys_net THEN "True" ELSE "False"

\* if not docker_sys_prefix_same(args.dockerconfig, sys_ipv6_net): ...
docker_sys_prefix_same ==
    /\ pc = "compare"
    /\ IF ~file.exists
       THEN /\ log' = Append(log, ConfigNotFound)
            /\ same' = "None"
            /\ Goto("update")
            /\ UNCHANGED cfgRead
       ELSE /\ cfgRead' = TRUE
            /\ log' = log
            /\ LET docker_config == json_load(file.doc)
               IN IF CidrKey \notin DOMAIN docker_config
                  THEN same' = same /\ Crash("KeyError")
                  ELSE LET docker_ipv6_net == ParseNetwork(docker_config[CidrKey])
                       IN IF docker_ipv6_net = ValueError
                          THEN same' = same /\ Crash("ValueError")
                          ELSE /\ same' = PrefixSame(docker_ipv6_net, sys_ipv6_net)
                               /\ IF same' = "True" THEN Exit(0) ELSE Goto("update")
    /\ UNCHANGED <<hostAddrs, ipInstalled, file, run, ipRc, ipv6_info, validity,
                   selIdx, sys_ipv6_net, writes, restarts, restartRc, prevWrote>>

\* the first subnet instead of the last
first_subnet(n) == subnets(n)[1]

\* *_, last_subnet = sys_ipv6_net.subnets()
last_subnet(n) == subnets(n)[Len(subnets(n))]

\* a dump of the new key alone, the loaded keys dropped
UpdatedConfig_OnlyCidr(docker_config, sys_net) ==
    [k \in {CidrKey} |-> Str(last_subnet(sys_net))]

\* the dict update_docker_prefix dumps
UpdatedConfig(docker_config, sys_net) ==
    [k \in DOMAIN docker_config \cup {CidrKey} |->
        IF k = CidrKey THEN Str(last_subnet(sys_net)) ELSE docker_config[k]]

\* update_docker_prefix(args.dockerconfig, sys_ipv6_net)
update_docker_prefix ==
    /\ pc = "update"
    /\ IF ~file.exists
       THEN /\ log' = Append(log, ConfigNotFound)
            /\ UNCHANGED <<file, cfgRead, writes>>
       ELSE /\ cfgRead' = TRUE
            /\ file' = FileOf(json_dump(UpdatedConfig(json_load(file.doc),
                                                      sys_ipv6_net)))
            /\ writes' = writes + 1
            /\ log' = log
    /\ Goto("restart")
    /\ UNCHANGED <<hostAddrs, ipInstalled, run, ipRc, ipv6_info, validity, selIdx,
                   sys_ipv6_net, same, restarts, restartRc, prevWrote>>

\* restart_docker that ends the run with status 1 when systemctl fails
restart_docker_Fatal ==
    /\ pc = "restart"
    /\ \E rc \in {0, 1} :
          /\ restartRc' = rc
          /\ log' = IF rc # 0 THEN Append(log, RestartFailed) ELSE log
          /\ Exit(IF rc # 0 THEN 1 ELSE 0)
    /\ restarts' = restarts + 1
    /\ UNCHANGED <<hostAddrs, ipInstalled, file, run, ipRc, ipv6_info, validity,
                   selIdx, sys_ipv6_net, same, cfgRead, writes, prevWrote>>

\* restart_docker(), then the script ends
restart_docker ==
    /\ pc = "restart"
    /\ \E rc \in {0, 1} :
          /\ restartRc' = rc
          /\ log' = IF rc # 0 THEN Append(log, RestartFailed) ELSE log
    /\ restarts' = restarts + 1
    /\ Exit(0)
    /\ UNCHANGED <<hostAddrs, ipInstalled, file, run, ipRc, ipv6_info, validity,
                   selIdx, sys_ipv6_net, same, cfgRead, writes, prevWrote>>

\* the script is invoked again: a fresh process against the same host
NextRun ==
    /\ pc = "done"
    /\ run < MaxRuns
    /\ run' = run + 1
    /\ prevWrote' = (writes > 0 /\ restarts > 0)
    /\ pc' = "query"
    /\ exitCode' = -1
    /\ uncaught' = "none"
    /\ log' = <<>>
    /\ ipRc' = -1
    /\ ipv6_info' = None
    /\ validity' = 0
    /\ selIdx' = 0
    /\ sys_ipv6_net' = Unbound
    /\ same' = "unset"
    /\ cfgRead' = FALSE
    /\ writes' = 0
    /\ restarts' = 0
    /\ restartRc' = -1
    /\ UNCHANGED <<hostAddrs, ipInstalled, file>>

(***************************************************************************)
(* Hosts and configuration files the runs start from                       *)
(***************************************************************************)
SeqsUpTo(S, n) == UNION {[1 .. k -> S] : k \in 0 .. n}

\* a global address in the low half, one in the high half, a private one
GlobalLow == Pow2(0)
GlobalHigh == Pow2(AddrBits - 1) + 1
PrivateAddr == Pow2(AddrBits) - 1

\* address entries for the selection: two global addresses and a private one
\* with every lifetime, an empty object, and a tentative entry
SelectionRecs ==
    {Rec(a, AddrBits - 1, t, FALSE) :
        a \in {GlobalLow, GlobalHigh, PrivateAddr}, t \in 0 .. MaxLife}
    \cup {EmptyRec, Rec(GlobalHigh, AddrBits - 1, MaxLife, TRUE)}

OtherText == <<"x">>
SelectionFiles ==
    {FileOf(<<(<<"log-driver", OtherText>>),
              <<CidrKey, Str(Net(0, AddrBits))>>,
              <<"bip", OtherText>>>>)}

\* every address with every prefix length, one entry
PrefixHosts == {<<Rec(a, l, 1, FALSE)>> : a \in Addrs, l \in PrefixLens}

ValidNets == {n \in [addr : Addrs, len : PrefixLens] : HostBits(n.addr, n.len) = 0}

PrefixFiles ==
    {NoFile,
     FileOf(<<(<<"bip", OtherText>>)>>),
     FileOf(<<(<<CidrKey, Str(Net(1, 0))>>)>>)}
    \cup {FileOf(<<(<<"log-driver", OtherText>>), <<CidrKey, Str(n)>>>>) :
            n \in ValidNets}

Init ==
    /\ \/ /\ hostAddrs \in SeqsUpTo(SelectionRecs, MaxRecs)
          /\ file \in SelectionFiles
          /\ ipInstalled = TRUE
       \/ /\ hostAddrs \in PrefixHosts
          /\ file \in PrefixFiles
          /\ ipInstalled \in BOOLEAN
    /\ pc = "query"
    /\ run = 1
    /\ exitCode = -1
    /\ uncaught = "none"
    /\ log = <<>>
    /\ ipRc = -1
    /\ ipv6_info = None
    /\ validity = 0
    /\ selIdx = 0
    /\ sys_ipv6_net = Unbound
    /\ same = "unset"
    /\ cfgRead = FALSE
    /\ writes = 0
    /\ restarts = 0
    /\ restartRc = -1
    /\ prevWrote = FALSE

Next ==
    \/ QueryAddress
    \/ SelectNetwork
    \/ docker_sys_prefix_same
    \/ update_docker_prefix
    \/ restart_docker
    \/ NextRun

Spec == Init /\ [][Next]_vars

(***************************************************************************)
(* Properties                                                              *)
(***************************************************************************)
Logged(msg) == \E i \in 1 .. Len(log) : log[i] = msg
TimesLogged(msg) == Cardinality({i \in 1 .. Len(log) : log[i] = msg})

\* the CIDR the file holds under fixed-cidr-v6
ConfiguredNet == ParseNetwork(json_load(file.doc)[CidrKey])

\* network n contains network c
Contains(n, c) == n.len <= c.len /\ c.addr - HostBits(c.addr, n.len) = n.addr

\* the address lies in the private range: its two leading bits are set
InPrivateRange(a) == a \div Pow2(AddrBits - 2) = 3

\* the records of addr_info that are neither empty nor private
Candidates ==
    {i \in 1 .. Len(ipv6_info.addr_info) :
        /\ ipv6_info.addr_info[i] # EmptyRec
        /\ ~InPrivateRange(ipv6_info.addr_info[i].local)}

SelectionDone == ipv6_info.ok /\ pc \notin {"query", "select"}

\* C1: when a network was selected and the configuration file does not
\* exist, the run ends with exit code 1, writes no file and never invokes
\* the daemon restart.
C1_AbsentConfigAborts ==
    (pc = "done" /\ sys_ipv6_net # Unbound /\ ~file.exists)
        => (exitCode = 1 /\ writes = 0 /\ restarts = 0)

\* C2: a run that follows a run which wrote the configuration and restarted
\* the daemon, on the same host, writes nothing and restarts nothing.
C2_SecondRunNoOp ==
    (prevWrote /\ pc = "done" /\ ipv6_info.ok) => (writes = 0 /\ restarts = 0)

\* C3: whenever addr_info holds a record that is neither empty nor private,
\* the selected network comes from the first record among those whose
\* valid_life_time is the maximum over them.
C3_SelectsFirstMaximum ==
    (SelectionDone /\ Candidates # {}) =>
        /\ selIdx \in Candidates
        /\ \A j \in Candidates :
              /\ ipv6_info.addr_info[j].valid_life_time
                    <= ipv6_info.addr_info[selIdx].valid_life_time
              /\ ipv6_info.addr_info[j].valid_life_time
                    = ipv6_info.addr_info[selIdx].valid_life_time => selIdx <= j
        /\ sys_ipv6_net = NetOfRec(ipv6_info.addr_info[selIdx])

\* C4: the selected network is never derived from an empty record, from a
\* record with a private address, or from a tentative address, whatever the
\* record's lifetime or position.
C4_NeverPrivateOrEmpty ==
    sys_ipv6_net # Unbound =>
        /\ selIdx \in 1 .. Len(ipv6_info.addr_info)
        /\ ipv6_info.addr_info[selIdx] # EmptyRec
        /\ ~InPrivateRange(ipv6_info.addr_info[selIdx].local)
        /\ ~ipv6_info.addr_info[selIdx].tentative
        /\ sys_ipv6_net.len = ipv6_info.addr_info[selIdx].prefixlen
        /\ Contains(sys_ipv6_net, Net(ipv6_info.addr_info[selIdx].local, AddrBits))

\* C4 witness: a network was selected although the host has a tentative
\* address and a private address with a greater lifetime than the selected one.
C4_Witness ==
    /\ sys_ipv6_net # Unbound
    /\ \E i \in 1 .. Len(hostAddrs) : hostAddrs[i].tentative
    /\ \E i \in 1 .. Len(ipv6_info.addr_info) :
          /\ ipv6_info.addr_info[i] # EmptyRec
          /\ InPrivateRange(ipv6_info.addr_info[i].local)
          /\ ipv6_info.addr_info[i].valid_life_time > validity

\* a network one prefix-length step shorter than c that contains c
OneStepSupernets(c) ==
    {n \in ValidNets : n.len = c.len - 1 /\ Contains(n, c)}

CompareReturned == same \in {"True", "False"} /\ writes = 0

\* C5 as stated: docker_sys_prefix_same returns true iff the network one
\* prefix-length step shorter that contains the configured CIDR equals the
\* selected network.
C5_SupernetIff_Original ==
    CompareReturned =>
        (same = "True" <=> sys_ipv6_net \in OneStepSupernets(ConfiguredNet))

\* C5 amended: docker_sys_prefix_same returns true iff the selected network
\* equals the network one prefix-length step shorter that contains the
\* configured CIDR or, for a configured CIDR of prefix length 0, which has
\* no shorter network, the configured CIDR itself.
C5_SupernetIff ==
    CompareReturned =>
        (same = "True" <=>
            IF ConfiguredNet.len = 0 THEN sys_ipv6_net = ConfiguredNet
            ELSE sys_ipv6_net \in OneStepSupernets(ConfiguredNet))

\* C5 witness: the comparison returned true for a configured CIDR that has a
\* one-step supernet.
C5_Witness == CompareReturned /\ same = "True" /\ ConfiguredNet.len > 0

\* C6: update_docker_prefix on an existing file leaves the set of keys and
\* the value of every key other than fixed-cidr-v6 as they were in the file.
C6_UpdatePreservesOtherKeys ==
    [][(pc = "update" /\ file.exists) =>
          /\ file'.exists
          /\ DocKeys(file'.doc) = DocKeys(file.doc)
          /\ \A k \in DocKeys(file.doc) \ {CidrKey} :
                json_load(file'.doc)[k] = json_load(file.doc)[k]]_vars

\* C6 witness: the run wrote a file that holds keys besides fixed-cidr-v6
\* and a value under fixed-cidr-v6 that the file did not start with.
C6_Witness ==
    /\ writes > 0
    /\ DocKeys(file.doc) \ {CidrKey} # {}
    /\ file \notin SelectionFiles \cup PrefixFiles

\* C7: when 'ip' is not installed or exits with a nonzero status, the run
\* ends with exit code 1 without reading or writing the configuration and
\* without invoking the daemon restart.
C7_QueryFailureAborts ==
    (pc # "query" /\ (~ipInstalled \/ ipRc > 0)) =>
        /\ pc = "done"
        /\ exitCode = 1
        /\ ~cfgRead
        /\ writes = 0
        /\ restarts = 0

\* C7 witness: 'ip' is installed and exited with a nonzero status on a host
\* whose configuration differs from the interface's network.
C7_Witness == pc = "done" /\ ipInstalled /\ ipRc > 0 /\ hostAddrs # <<>>

\* C8: when the query succeeds and no record is a candidate, the run logs
\* the 'no usable IPv6 address' error and exits with code 1 before the
\* configuration is loaded, with no write and no restart.
C8_NoUsableAddressLogged ==
    (SelectionDone /\ Candidates = {}) =>
        /\ pc = "done"
        /\ exitCode = 1
        /\ Logged(NoUsableAddress)
        /\ ~cfgRead
        /\ writes = 0
        /\ restarts = 0

\* C9: when the configuration was written and systemctl exits nonzero, the
\* failure is logged once, the restart is not retried, the file keeps the new
\* fixed-cidr-v6 value and the run ends with exit code 0.
C9_RestartFailureNonFatal ==
    (pc = "done" /\ writes > 0 /\ restartRc > 0) =>
        /\ exitCode = 0
        /\ uncaught = "none"
        /\ restarts = 1
        /\ TimesLogged(RestartFailed) = 1
        /\ writes = 1
        /\ json_load(file.doc)[CidrKey] = Str(last_subnet(sys_ipv6_net))

\* C9 witness: a run that wrote the configuration ended after systemctl failed.
C9_Witness == pc = "done" /\ writes > 0 /\ restartRc > 0

\* C10: after update_docker_prefix wrote the file, the value under
\* fixed-cidr-v6 is a network inside the selected network, its prefix length
\* is not shorter than the selected network's, and no network of that length
\* inside the selected network has a higher base address.
C10_LastSubnetStored ==
    writes > 0 =>
        /\ ConfiguredNet # ValueError
        /\ Contains(sys_ipv6_net, ConfiguredNet)
        /\ ConfiguredNet.len >= sys_ipv6_net.len
        /\ \A n \in ValidNets :
              (n.len = ConfiguredNet.len /\ Contains(sys_ipv6_net, n))
                  => n.addr <= ConfiguredNet.addr

\* C10 witness: the file was written for a selected network that has more
\* than one subnet.
C10_Witness == writes > 0 /\ sys_ipv6_net.len < AddrBits

====
